---- MODULE Spec2Model ----
(***************************************************************************)
(* Arithmetic drilling game with spaced repetition: the question queue,    *)
(* the answer evaluation, the feedback-delay callbacks and the countdown   *)
(* of App.tsx / CircularTimer.tsx / gameService.ts.                        *)
(*                                                                         *)
(* React specifics that the model keeps:                                   *)
(*  - every handler runs against the state of the latest render; all the   *)
(*    set-state calls of a handler are applied together, then the passive  *)
(*    effects of the following render run (CircularTimer's two effects);   *)
(*  - a setTimeout callback created in processAnswer calls the             *)
(*    nextQuestion of the render it was created in, so it reads the        *)
(*    currentQIndex and questionQueue of that render (captured values),    *)
(*    while setCurrentQIndex(prev => prev + 1) acts on the latest state;   *)
(*  - nothing ever calls clearTimeout.                                     *)
(***************************************************************************)
EXTENDS Integers, Sequences, FiniteSets, TLC

\* ------------------------------------------------------------------ bounds
\* Number of questions startGame asks generateQuestionBatch for (10 in the
\* source, scaled down).
BatchCount == 2
\* Cap on the queue length: an event that would append beyond it is disabled.
MaxQueue == 4
\* Cap on the number of feedback-delay callbacks scheduled and not yet fired.
MaxPending == 1
\* Cap on the depth of review sessions (the number of "review-" prefixes of an id).
MaxReview == 1
\* config.durationPerQuestion in countdown ticks (50 or 100 ticks of 0.1 s in
\* the source, scaled down).
Duration == 2

\* Cap on the number of reward-image requests in flight.
MaxRequests == 1

\* One uninterrupted session with a longer queue (SpecLong): largest batch,
\* cap on the queue length, cap on the scheduled callbacks.
LongBatch == 3
LongQueue == 6
LongPending == 1

\* Sessions left through the X button while callbacks are scheduled
\* (SpecLeave): cap on the scheduled callbacks.
LeavePending == 2

\* A call of generateQuestionBatch on its own (SpecGen): largest count, and
\* largest operand drawn (the source draws from 1 .. 10).
GenCount == 2
MaxDraw == 3

\* Values Date.now() returns.  The ids built from it are told apart by their
\* other parts; all calls returning the same millisecond is the case in which
\* ids are least distinct.
Clock == {0}
\* Keys of the keypad that are pressed (a subset of '0'..'9').
Keys == {1, 2}
\* Outcomes of the two operand draws Math.floor(Math.random() * 10) + 1.
OperandDraws == {<<1, 2>>, <<3, 4>>}

\* userAnswer: undefined / userVal: null
Undefined == -1

\* ------------------------------------------------------------- pure helpers
\* Number.prototype.toString().length of a non-negative integer
RECURSIVE NumDigits(_)
NumDigits(n) == IF n < 10 THEN 1 ELSE 1 + NumDigits(n \div 10)

\* parseInt of a string of decimal digits
RECURSIVE parseInt(_)
parseInt(str) ==
  IF str = <<>> THEN 0
  ELSE 10 * parseInt(SubSeq(str, 1, Len(str) - 1)) + str[Len(str)]

\* String.prototype.slice(0, -1)
SliceLast(str) == IF str = <<>> THEN <<>> ELSE SubSeq(str, 1, Len(str) - 1)

\* ------------------------------------------------------------ question ids
\* An id string  review-...-q-<t>-<i>-retry-<t1>-retry-<t2>...  is kept as
\* its parts: the number of "review-" prefixes, the batch time, the batch
\* index and the sequence of retry time stamps.
BatchId(t, i) == [review |-> 0, t |-> t, i |-> i, retries |-> <<>>]
\* currentQ.id + '-retry-' + Date.now()
RetryId(id, now) == [id EXCEPT !.retries = Append(@, now)]
\* `review-${q.id}`
ReviewId(id) == [id EXCEPT !.review = @ + 1]
\* q.id.split('-retry')[0]
SplitRetry(id) == [id EXCEPT !.retries = <<>>]

\* --------------------------------------------------------------- generator
\* The operations array of generateQuestionBatch, OperationType.ALL, and the
\* target numbers the menu offers
operations == <<"+", "-", "*", "/">>
ALL == "mix"
TargetNumbers == 1 .. 10

\* mutant: a division shows the operand drawn instead of the product
GenQuestion_PlainDivision(op, targetNumber, r1, r2, swap, now, i) ==
  LET a1 == r1
      a2 == IF targetNumber # Undefined THEN targetNumber ELSE r2
      subSwap == op = "-" /\ a1 < a2
      b1 == IF subSwap THEN a2 ELSE a1
      b2 == IF subSwap THEN a1 ELSE a2
      ans == CASE op = "+" -> a1 + a2
               [] op = "-" -> b1 - b2
               [] op = "*" -> a1 * a2
               [] op = "/" -> a1
      dispSwap == op \in {"+", "*"} /\ swap
  IN [id |-> BatchId(now, i),
      num1 |-> IF dispSwap THEN b2 ELSE b1,
      num2 |-> IF dispSwap THEN b1 ELSE b2,
      operation |-> op,
      correctAnswer |-> ans,
      userAnswer |-> Undefined,
      isRetry |-> FALSE]

\* mutant: a subtraction keeps the operands in the order drawn
GenQuestion_NoExchange(op, targetNumber, r1, r2, swap, now, i) ==
  LET a1 == r1
      a2 == IF targetNumber # Undefined THEN targetNumber ELSE r2
      b1 == IF op = "/" THEN a1 * a2 ELSE a1
      b2 == a2
      ans == CASE op = "+" -> a1 + a2
               [] op = "-" -> b1 - b2
               [] op = "*" -> a1 * a2
               [] op = "/" -> a1
      dispSwap == op \in {"+", "*"} /\ swap
  IN [id |-> BatchId(now, i),
      num1 |-> IF dispSwap THEN b2 ELSE b1,
      num2 |-> IF dispSwap THEN b1 ELSE b2,
      operation |-> op,
      correctAnswer |-> ans,
      userAnswer |-> Undefined,
      isRetry |-> FALSE]

\* mutant: the target number fixes an operand of multiplications and
\* divisions only
GenQuestion_TargetForTables(op, targetNumber, r1, r2, swap, now, i) ==
  LET a1 == r1
      a2 == IF targetNumber # Undefined /\ op \in {"*", "/"} THEN targetNumber ELSE r2
      subSwap == op = "-" /\ a1 < a2
      b1 == IF subSwap THEN a2 ELSE IF op = "/" THEN a1 * a2 ELSE a1
      b2 == IF subSwap THEN a1 ELSE a2
      ans == CASE op = "+" -> a1 + a2
               [] op = "-" -> b1 - b2
               [] op = "*" -> a1 * a2
               [] op = "/" -> a1
      dispSwap == op \in {"+", "*"} /\ swap
  IN [id |-> BatchId(now, i),
      num1 |-> IF dispSwap THEN b2 ELSE b1,
      num2 |-> IF dispSwap THEN b1 ELSE b2,
      operation |-> op,
      correctAnswer |-> ans,
      userAnswer |-> Undefined,
      isRetry |-> FALSE]

\* One iteration of the loop of generateQuestionBatch: operation is the
\* (non-ALL) operation of the question, r1 and r2 the operand draws, swap the
\* outcome of Math.random() > 0.5.
GenQuestion(op, targetNumber, r1, r2, swap, now, i) ==
  LET a1 == r1
      a2 == IF targetNumber # Undefined THEN targetNumber ELSE r2
      subSwap == op = "-" /\ a1 < a2
      b1 == IF subSwap THEN a2 ELSE IF op = "/" THEN a1 * a2 ELSE a1
      b2 == IF subSwap THEN a1 ELSE a2
      ans == CASE op = "+" -> a1 + a2
               [] op = "-" -> b1 - b2
               [] op = "*" -> a1 * a2
               [] op = "/" -> a1
      dispSwap == op \in {"+", "*"} /\ swap
  IN [id |-> BatchId(now, i),
      num1 |-> IF dispSwap THEN b2 ELSE b1,
      num2 |-> IF dispSwap THEN b1 ELSE b2,
      operation |-> op,
      correctAnswer |-> ans,
      userAnswer |-> Undefined,
      isRetry |-> FALSE]

\* generateQuestionBatch(operation, targetNumber, count) for a non-ALL
\* operation; draws[i] = <<r1, r2>> are the operand draws of question i.
generateQuestionBatch(operation, targetNumber, count, draws, now) ==
  [i \in 1 .. count |->
     GenQuestion(operation, targetNumber, draws[i][1], draws[i][2], FALSE, now, i - 1)]

\* mutant: every question of the batch gets the id of the first
LoopBody_SameId(g, opIndex, r1, r2, swap, now) ==
  LET op == IF g.operation = ALL THEN operations[opIndex] ELSE g.operation
  IN [g EXCEPT !.questions = Append(@, GenQuestion(op, g.targetNumber, r1, r2, swap, now, 0)),
               !.i = @ + 1]

\* The body of the for loop (lines 16-75) on the call state g: opIndex is
\* Math.floor(Math.random() * operations.length) + 1, read only for ALL.
LoopBody(g, opIndex, r1, r2, swap, now) ==
  LET op == IF g.operation = ALL THEN operations[opIndex] ELSE g.operation
  IN [g EXCEPT !.questions = Append(@, GenQuestion(op, g.targetNumber, r1, r2, swap, now, g.i)),
               !.i = @ + 1]

\* ------------------------------------------------------------- setTimeout
\* A scheduled callback: `last` is the value of
\* currentQIndex >= questionQueue.length - 1 on the currentQIndex and
\* questionQueue its nextQuestion closure holds (they never change after the
\* closure is created); `stale` is history.
Callbacks == [last : BOOLEAN, stale : BOOLEAN]
NoTimers == [k \in Callbacks |-> 0]
Schedule(cbs, cb) == [cbs EXCEPT ![cb] = @ + 1]
Cancel(cbs, cb) == [cbs EXCEPT ![cb] = @ - 1]
RECURSIVE SumOver(_, _)
SumOver(f, S) == IF S = {} THEN 0 ELSE LET x == CHOOSE y \in S : TRUE IN f[x] + SumOver(f, S \ {x})
NumPending(cbs) == SumOver(cbs, Callbacks)

\* ------------------------------------------------------------------- state
VARIABLES
  gameState,      \* "MENU" | "PLAYING" | "RESULTS"
  questionQueue,  \* sequence of questions (index 0 of the source is index 1)
  currentQIndex,  \* 0-based, as in the source
  userInput,      \* sequence of digits
  feedback,       \* "none" (null) | "correct" | "wrong" | "timeout"
  sessionStats,   \* [totalQuestions, correctCount, wrongCount]
  pending,        \* scheduled setTimeout callbacks not yet fired: how many of
                  \* each kind of Callbacks
  timeLeft,       \* CircularTimer's state, in ticks
  reward,         \* [image: rewardImage # null, loading: isRewardLoading,
                  \*  requests: generateContent calls not yet answered]
  apiKey,         \* whether the build has process.env.API_KEY
  gen,            \* a call of generateQuestionBatch in progress: its arguments,
                  \* its loop counter i and its local array questions
  elapsed,        \* history: ticks counted since the current question became current
  evals,          \* history: per queue position, the outcomes processAnswer scored for it
  lastEvent       \* history: the event handled last

vars == <<gameState, questionQueue, currentQIndex, userInput, feedback,
          sessionStats, pending, timeLeft, reward, apiKey, gen, elapsed,
          evals, lastEvent>>

\* The App state as one record, so that a handler and the effects that follow
\* it compose.
App == [gameState |-> gameState, questionQueue |-> questionQueue,
        currentQIndex |-> currentQIndex, userInput |-> userInput,
        feedback |-> feedback, sessionStats |-> sessionStats,
        pending |-> pending, evals |-> evals]

HasCurrentQ(s) == s.currentQIndex < Len(s.questionQueue)
CurrentQ(s) == s.questionQueue[s.currentQIndex + 1]

\* CircularTimer is rendered only by the PLAYING branch, below its
\* `if (!currentQ) return null`.
TimerMounted(s) == s.gameState = "PLAYING" /\ HasCurrentQ(s)

NoReward == [image |-> FALSE, loading |-> FALSE, requests |-> 0]

\* The App as mounted
Mounted ==
  /\ reward = NoReward
  /\ gameState = "MENU"
  /\ questionQueue = <<>>
  /\ currentQIndex = 0
  /\ userInput = <<>>
  /\ feedback = "none"
  /\ sessionStats = [totalQuestions |-> 0, correctCount |-> 0, wrongCount |-> 0]
  /\ pending = NoTimers
  /\ timeLeft = Duration
  /\ elapsed = 0
  /\ evals = <<>>
  /\ lastEvent = "init"

\* No call of generateQuestionBatch is being followed step by step
NoCall == [operation |-> "none", targetNumber |-> Undefined, count |-> 0, i |-> 0,
           questions |-> <<>>]

\* A build without process.env.API_KEY
Init == apiKey = FALSE /\ gen = NoCall /\ Mounted

\* A build with process.env.API_KEY
InitReward == apiKey = TRUE /\ gen = NoCall /\ Mounted

\* ---------------------------------------------------------------- handlers
\* mutant: the end of the queue leads back to the menu
finishGame_ToMenu(s) == [s EXCEPT !.gameState = "MENU"]

finishGame(s) == [s EXCEPT !.gameState = "RESULTS"]

\* mutant: the buffer is not cleared on advancing
nextQuestion_KeepInput(s, cb) ==
  LET cleared == [s EXCEPT !.feedback = "none"]
  IN IF cb.last
     THEN finishGame(cleared)
     ELSE [cleared EXCEPT !.currentQIndex = @ + 1]

\* nextQuestion of the render that scheduled cb: the test reads the captured
\* index and queue length, the increment is a functional update.
nextQuestion(s, cb) ==
  LET cleared == [s EXCEPT !.feedback = "none", !.userInput = <<>>]
  IN IF cb.last
     THEN finishGame(cleared)
     ELSE [cleared EXCEPT !.currentQIndex = @ + 1]

\* valToCheck and isCorrect of processAnswer
IsCorrect(userVal, isTimeout, currentQ) ==
  LET valToCheck == IF userVal # Undefined THEN userVal ELSE -999
  IN ~isTimeout /\ valToCheck = currentQ.correctAnswer

\* mutant: the correct branch bumps the wrong counter
ScoreCorrect_AsWrong(stats) == [stats EXCEPT !.wrongCount = @ + 1]

\* mutant: a correct answer counts twice
ScoreCorrect_Twice(stats) == [stats EXCEPT !.correctCount = @ + 2]

\* mutant: correct answers are counted only while fewer than totalQuestions
\* answers have been counted
ScoreCorrect_UpToTotal(stats) ==
  IF stats.correctCount + stats.wrongCount < stats.totalQuestions
  THEN [stats EXCEPT !.correctCount = @ + 1]
  ELSE stats

\* setSessionStats(prev => ({ ...prev, correctCount: prev.correctCount + 1 }))
ScoreCorrect(stats) == [stats EXCEPT !.correctCount = @ + 1]

\* setSessionStats(prev => ({ ...prev, wrongCount: prev.wrongCount + 1 }))
\* mutant: a wrong answer also counts its retry into totalQuestions
ScoreWrong_CountsRetry(stats) ==
  [stats EXCEPT !.wrongCount = @ + 1, !.totalQuestions = @ + 1]

ScoreWrong(stats) == [stats EXCEPT !.wrongCount = @ + 1]

\* mutant: the clone keeps the id of the question it copies
RetryClone_SameId(currentQ, now) ==
  [currentQ EXCEPT !.userAnswer = Undefined, !.isRetry = TRUE]

\* retryQ: the clone of currentQ with the answer reset and a new id
RetryClone(currentQ, now) ==
  [currentQ EXCEPT !.userAnswer = Undefined,
                   !.isRetry = TRUE,
                   !.id = RetryId(currentQ.id, now)]

\* mutant: the retry is put at the head of the queue
PushRetry_AtFront(queue, retryQ) == <<retryQ>> \o queue

\* mutant: the retry is built but never pushed
PushRetry_Dropped(queue, retryQ) == queue

\* newQueue = [...questionQueue]; newQueue.push(retryQ)
PushRetry(queue, retryQ) == Append(queue, retryQ)

processAnswer(s, userVal, isTimeout, now) ==
  IF ~HasCurrentQ(s) THEN s
  ELSE
    LET currentQ == CurrentQ(s)
        isCorrect == IsCorrect(userVal, isTimeout, currentQ)
        cb == [last |-> s.currentQIndex >= Len(s.questionQueue) - 1, stale |-> FALSE]
    IN IF isCorrect
       THEN [s EXCEPT !.feedback = "correct",
                      !.sessionStats = ScoreCorrect(@),
                      !.pending = Schedule(@, cb),
                      !.evals[s.currentQIndex + 1] = Append(@, "correct")]
       ELSE
         LET outcome == IF isTimeout THEN "timeout" ELSE "wrong"
         IN [s EXCEPT !.feedback = outcome,
                      !.sessionStats = ScoreWrong(@),
                      !.questionQueue = PushRetry(@, RetryClone(currentQ, now)),
                      !.pending = Schedule(@, cb),
                      !.evals = Append([@ EXCEPT ![s.currentQIndex + 1] = Append(@, outcome)],
                                       <<>>)]

\* mutant: the typed answer is evaluated but not stored on the question
handleInput_NoStore(s, num, now) ==
  IF s.feedback # "none" THEN s
  ELSE IF ~HasCurrentQ(s) THEN s
  ELSE
    LET correctLen == NumDigits(CurrentQ(s).correctAnswer)
    IN IF Len(s.userInput) >= correctLen THEN s
       ELSE
         LET nextInput == Append(s.userInput, num)
             typed == [s EXCEPT !.userInput = nextInput]
         IN IF Len(nextInput) = correctLen
            THEN processAnswer(typed, parseInt(nextInput), FALSE, now)
            ELSE typed

\* mutant: every accepted digit submits the buffer
handleInput_EagerSubmit(s, num, now) ==
  IF s.feedback # "none" THEN s
  ELSE IF ~HasCurrentQ(s) THEN s
  ELSE
    LET correctLen == NumDigits(CurrentQ(s).correctAnswer)
    IN IF Len(s.userInput) >= correctLen THEN s
       ELSE
         LET nextInput == Append(s.userInput, num)
             typed == [s EXCEPT !.userInput = nextInput]
             userVal == parseInt(nextInput)
             stored == [typed EXCEPT
                          !.questionQueue[s.currentQIndex + 1].userAnswer = userVal]
         IN processAnswer(stored, userVal, FALSE, now)

handleInput(s, num, now) ==
  IF s.feedback # "none" THEN s
  ELSE IF ~HasCurrentQ(s) THEN s
  ELSE
    LET correctLen == NumDigits(CurrentQ(s).correctAnswer)
    IN IF Len(s.userInput) >= correctLen THEN s
       ELSE
         LET nextInput == Append(s.userInput, num)
             typed == [s EXCEPT !.userInput = nextInput]
         IN IF Len(nextInput) = correctLen
            THEN LET userVal == parseInt(nextInput)
                     stored == [typed EXCEPT
                                  !.questionQueue[s.currentQIndex + 1].userAnswer = userVal]
                 IN processAnswer(stored, userVal, FALSE, now)
            ELSE typed

\* mutant: delete is not blocked during feedback
handleDelete_NoGuard(s) == [s EXCEPT !.userInput = SliceLast(@)]

handleDelete(s) ==
  IF s.feedback # "none" THEN s
  ELSE [s EXCEPT !.userInput = SliceLast(@)]

\* history: the callbacks scheduled before the play state was left or a new
\* session started
Outdated(cbs) ==
  [k \in Callbacks |->
     IF k.stale THEN cbs[k] + cbs[[k EXCEPT !.stale = FALSE]] ELSE 0]

startGame(s, questions) ==
  [s EXCEPT !.questionQueue = questions,
            !.currentQIndex = 0,
            !.userInput = <<>>,
            !.feedback = "none",
            !.sessionStats = [totalQuestions |-> Len(questions),
                              correctCount |-> 0, wrongCount |-> 0],
            !.gameState = "PLAYING",
            !.pending = Outdated(@),
            !.evals = [i \in 1 .. Len(questions) |-> <<>>]]

\* The forEach over questionQueue that fills wrongQuestionsMap (keyed by q.id,
\* looked up by the id cut at '-retry'); the result is Array.from(map.values()).
RECURSIVE WrongQuestionsFrom(_, _, _)
WrongQuestionsFrom(queue, k, acc) ==
  IF k > Len(queue) THEN acc
  ELSE
    LET q == queue[k]
        has == \E j \in 1 .. Len(acc) : acc[j].id = SplitRetry(q.id)
        add == q.userAnswer # Undefined /\ q.userAnswer # q.correctAnswer /\ ~has
    IN WrongQuestionsFrom(queue, k + 1, IF add THEN Append(acc, q) ELSE acc)

wrongQuestionsMap(queue) == WrongQuestionsFrom(queue, 1, <<>>)

\* mutant: the review questions keep the answer typed in the last session
startReview_KeepsAnswers(s) ==
  LET wrong == wrongQuestionsMap(s.questionQueue)
      wrongQuestions == [j \in 1 .. Len(wrong) |->
                           [wrong[j] EXCEPT !.id = ReviewId(@)]]
  IN IF Len(wrongQuestions) > 0 THEN startGame(s, wrongQuestions) ELSE s

startReview(s) ==
  LET wrong == wrongQuestionsMap(s.questionQueue)
      wrongQuestions == [j \in 1 .. Len(wrong) |->
                           [wrong[j] EXCEPT !.id = ReviewId(@),
                                            !.userAnswer = Undefined,
                                            !.isRetry = FALSE]]
  IN IF Len(wrongQuestions) > 0 THEN startGame(s, wrongQuestions) ELSE s

\* ------------------------------------------------------- CircularTimer
\* mutant: the timeout submits what the buffer holds as a typed answer
onTimeUp_SubmitsBuffer(s, now) ==
  processAnswer(s, IF s.userInput = <<>> THEN Undefined ELSE parseInt(s.userInput),
                FALSE, now)

\* onTimeUp={() => processAnswer(null, true)}
onTimeUp(s, now) == processAnswer(s, Undefined, TRUE, now)

\* setTimeLeft((prev) => Math.max(0, prev - 0.1)), in ticks
CountDown(tl) == IF tl - 1 > 0 THEN tl - 1 ELSE 0

\* The two effects of CircularTimer after a render of App state s, where tl is
\* the timeLeft that render sees, wasMounted/oldKey describe the previous
\* render and el the ticks counted so far.  Effect 1 resets timeLeft when
\* resetKey changed (seen only by the next render); effect 2 runs on every App
\* render (onTimeUp is a new arrow each time) and calls onTimeUp when
\* isPlaying and the timeLeft of THIS render is <= 0.
CircularTimer(s, wasMounted, oldKey, tl, el, now) ==
  IF ~TimerMounted(s)
  THEN [app |-> s, timeLeft |-> Duration, elapsed |-> 0]
  ELSE
    LET fresh == ~wasMounted
        seen == IF fresh THEN Duration ELSE tl
        keyChanged == fresh \/ oldKey # CurrentQ(s).id
        isPlaying == s.feedback = "none"
        timeUp == isPlaying /\ seen <= 0
    IN [app |-> IF timeUp THEN onTimeUp(s, now) ELSE s,
        timeLeft |-> IF keyChanged THEN Duration ELSE seen,
        elapsed |-> IF keyChanged THEN 0 ELSE el]

\* ----------------------------------------------------------- reward image
\* generateReward up to its await: nothing without an API key, else
\* isRewardLoading is set and the request is sent.
generateReward(rw, key) ==
  IF ~key THEN rw
  ELSE [rw EXCEPT !.loading = TRUE, !.requests = @ + 1]

\* generateReward after its await: every inlineData part of the response sets
\* rewardImage (a response without one, or an error, sets nothing); the
\* finally block clears isRewardLoading.
RewardArrives(rw, hasImage) ==
  [rw EXCEPT !.image = IF hasImage THEN TRUE ELSE @,
             !.loading = FALSE,
             !.requests = @ - 1]

\* mutant: the effect requests a reward on every results screen
RewardEffect_AnyResults(prev, cur, rw, key) ==
  IF prev.gameState = cur.gameState
     /\ prev.sessionStats.wrongCount = cur.sessionStats.wrongCount
  THEN rw
  ELSE IF cur.gameState = "RESULTS"
  THEN generateReward(rw, key)
  ELSE [rw EXCEPT !.image = FALSE, !.loading = FALSE]

\* useEffect(..., [gameState, sessionStats.wrongCount]) after the render of
\* cur that follows the render of prev
RewardEffect(prev, cur, rw, key) ==
  IF prev.gameState = cur.gameState
     /\ prev.sessionStats.wrongCount = cur.sessionStats.wrongCount
  THEN rw
  ELSE IF cur.gameState = "RESULTS" /\ cur.sessionStats.wrongCount = 0
  THEN generateReward(rw, key)
  ELSE IF cur.gameState # "RESULTS"
  THEN [rw EXCEPT !.image = FALSE, !.loading = FALSE]
  ELSE rw

\* ---------------------------------------------------------- results screen
\* Math.round((correctCount / totalQuestions) * 100), for totalQuestions > 0
accuracy(stats) ==
  (200 * stats.correctCount + stats.totalQuestions) \div (2 * stats.totalQuestions)

\* ------------------------------------------------------------------ steps
\* Commit the App state s reached by a handler and the reward state rw: run
\* the effects of the render of s (CircularTimer's, then App's) and those of
\* the render that follows a timeout signalled by the timer.  The step is
\* disabled beyond the caps capQ (queue length) and capP (scheduled callbacks).
CommitWithin(capQ, capP, s, rw, tl, el, now, event) ==
  LET r == CircularTimer(s, TimerMounted(App),
                         IF TimerMounted(App) THEN CurrentQ(App).id ELSE BatchId(0, 0),
                         tl, el, now)
      a == r.app
      rw2 == RewardEffect(s, a, RewardEffect(App, s, rw, apiKey), apiKey)
  IN /\ Len(a.questionQueue) <= capQ
     /\ NumPending(a.pending) <= capP
     /\ rw2.requests <= MaxRequests
     /\ reward' = rw2
     /\ apiKey' = apiKey
     /\ gen' = gen
     /\ gameState' = a.gameState
     /\ questionQueue' = a.questionQueue
     /\ currentQIndex' = a.currentQIndex
     /\ userInput' = a.userInput
     /\ feedback' = a.feedback
     /\ sessionStats' = a.sessionStats
     /\ pending' = a.pending
     /\ evals' = a.evals
     /\ timeLeft' = r.timeLeft
     /\ elapsed' = r.elapsed
     /\ lastEvent' = event

Commit(s, tl, el, now, event) ==
  CommitWithin(MaxQueue, MaxPending, s, reward, tl, el, now, event)

\* "Começar" on the menu: startGame() with a freshly generated batch
\* (config is the initial one: MULTIPLICATION, targetNumber null).
StartGame ==
  /\ gameState = "MENU"
  /\ \E draws \in [1 .. BatchCount -> OperandDraws], now \in Clock :
       Commit(startGame(App, generateQuestionBatch("*", Undefined, BatchCount, draws, now)),
              timeLeft, elapsed, now, "start")

\* A keypad digit
PressDigit ==
  /\ gameState = "PLAYING"
  /\ HasCurrentQ(App)
  /\ \E num \in Keys, now \in Clock :
       Commit(handleInput(App, num, now), timeLeft, elapsed, now, "digit")

\* The keypad's delete key
PressDelete ==
  /\ gameState = "PLAYING"
  /\ HasCurrentQ(App)
  /\ Commit(handleDelete(App), timeLeft, elapsed, 0, "delete")

\* The 100 ms interval of CircularTimer: runs only while isPlaying and timeLeft > 0
Tick ==
  /\ TimerMounted(App)
  /\ feedback = "none"
  /\ timeLeft > 0
  /\ \E now \in Clock :
       Commit(App, CountDown(timeLeft), elapsed + 1, now, "tick")

\* A scheduled feedback-delay callback fires
FireDelay ==
  \E cb \in Callbacks, now \in Clock :
    /\ pending[cb] > 0
    /\ Commit(nextQuestion([App EXCEPT !.pending = Cancel(@, cb)], cb),
              timeLeft, elapsed, now, IF cb.stale THEN "staleDelay" ELSE "delay")

\* The X button of the play screen
ExitToMenu ==
  /\ gameState = "PLAYING"
  /\ HasCurrentQ(App)
  /\ Commit([App EXCEPT !.gameState = "MENU", !.pending = Outdated(@)], timeLeft, elapsed, 0, "exit")

\* "Jogar Novamente" on the results screen
PlayAgain ==
  /\ gameState = "RESULTS"
  /\ Commit([App EXCEPT !.gameState = "MENU"], timeLeft, elapsed, 0, "menu")

\* "Revisar N Erros" on the results screen (shown only when there are errors)
StartReview ==
  /\ gameState = "RESULTS"
  /\ \A i \in 1 .. Len(questionQueue) : questionQueue[i].id.review < MaxReview
  /\ Len(wrongQuestionsMap(questionQueue)) > 0
  /\ Commit(startReview(App), timeLeft, elapsed, 0, "review")

Next ==
  \/ StartGame
  \/ PressDigit
  \/ PressDelete
  \/ Tick
  \/ FireDelay
  \/ ExitToMenu
  \/ PlayAgain
  \/ StartReview

Spec == Init /\ [][Next]_vars

\* ------------------------------------------- one uninterrupted session
\* The steps of a session that is played from the menu to the results screen
\* without leaving the play screen.
CommitLong(s, tl, el, now, event) ==
  CommitWithin(LongQueue, LongPending, s, reward, tl, el, now, event)

LongStart ==
  /\ gameState = "MENU"
  /\ \E count \in BatchCount .. LongBatch :
       \E draws \in [1 .. count -> OperandDraws], now \in Clock :
         CommitLong(startGame(App, generateQuestionBatch("*", Undefined, count, draws, now)),
                    timeLeft, elapsed, now, "start")

LongDigit ==
  /\ gameState = "PLAYING"
  /\ HasCurrentQ(App)
  /\ \E num \in Keys, now \in Clock :
       CommitLong(handleInput(App, num, now), timeLeft, elapsed, now, "digit")

LongTick ==
  /\ TimerMounted(App)
  /\ feedback = "none"
  /\ timeLeft > 0
  /\ \E now \in Clock :
       CommitLong(App, CountDown(timeLeft), elapsed + 1, now, "tick")

LongDelay ==
  \E cb \in Callbacks, now \in Clock :
    /\ pending[cb] > 0
    /\ CommitLong(nextQuestion([App EXCEPT !.pending = Cancel(@, cb)], cb),
                  timeLeft, elapsed, now, IF cb.stale THEN "staleDelay" ELSE "delay")

NextLong ==
  \/ LongStart
  \/ LongDigit
  \/ LongTick
  \/ LongDelay

SpecLong == Init /\ [][NextLong]_vars

\* ------------------------------------------- leaving the play screen
\* The steps of sessions that are started from the menu and left through the
\* X button, with up to LeavePending callbacks scheduled.
CommitLeave(s, tl, el, now, event) ==
  CommitWithin(MaxQueue, LeavePending, s, reward, tl, el, now, event)

LeaveStart ==
  /\ gameState = "MENU"
  /\ \E draws \in [1 .. BatchCount -> OperandDraws], now \in Clock :
       CommitLeave(startGame(App, generateQuestionBatch("*", Undefined, BatchCount, draws, now)),
                   timeLeft, elapsed, now, "start")

LeaveDigit ==
  /\ gameState = "PLAYING"
  /\ HasCurrentQ(App)
  /\ \E num \in Keys, now \in Clock :
       CommitLeave(handleInput(App, num, now), timeLeft, elapsed, now, "digit")

LeaveTick ==
  /\ TimerMounted(App)
  /\ feedback = "none"
  /\ timeLeft > 0
  /\ \E now \in Clock :
       CommitLeave(App, CountDown(timeLeft), elapsed + 1, now, "tick")

LeaveDelay ==
  \E cb \in Callbacks, now \in Clock :
    /\ pending[cb] > 0
    /\ CommitLeave(nextQuestion([App EXCEPT !.pending = Cancel(@, cb)], cb),
                   timeLeft, elapsed, now, IF cb.stale THEN "staleDelay" ELSE "delay")

LeaveExit ==
  /\ gameState = "PLAYING"
  /\ HasCurrentQ(App)
  /\ CommitLeave([App EXCEPT !.gameState = "MENU", !.pending = Outdated(@)],
                 timeLeft, elapsed, 0, "exit")

NextLeave ==
  \/ LeaveStart
  \/ LeaveDigit
  \/ LeaveTick
  \/ LeaveDelay
  \/ LeaveExit

SpecLeave == Init /\ [][NextLeave]_vars

\* ------------------------------------------------- build with an API key
\* The image service answers a request: with an image, without one, or with
\* an error.
RewardResponse ==
  /\ reward.requests > 0
  /\ \E hasImage \in BOOLEAN :
       CommitWithin(MaxQueue, MaxPending, App, RewardArrives(reward, hasImage),
                    timeLeft, elapsed, 0, "response")

\* The sessions of SpecReward are played from the menu, by digits and
\* timeouts, and left by the X button or from the results screen.
NextReward ==
  \/ StartGame
  \/ PressDigit
  \/ Tick
  \/ FireDelay
  \/ ExitToMenu
  \/ PlayAgain
  \/ RewardResponse

SpecReward == InitReward /\ [][NextReward]_vars

\* ------------------------------------------- generateQuestionBatch alone
\* A call generateQuestionBatch(operation, targetNumber, count) followed one
\* loop iteration at a time.
InitGen ==
  /\ apiKey = FALSE
  /\ Mounted
  /\ gen \in [operation : {"+", "-", "*", "/", ALL},
              targetNumber : TargetNumbers \cup {Undefined},
              count : 0 .. GenCount,
              i : {0},
              questions : {<<>>}]

GenIterate ==
  /\ gen.i < gen.count
  /\ \E opIndex \in 1 .. Len(operations), r1, r2 \in 1 .. MaxDraw,
        swap \in BOOLEAN, now \in Clock :
       gen' = LoopBody(gen, opIndex, r1, r2, swap, now)
  /\ lastEvent' = "generate"
  /\ UNCHANGED <<gameState, questionQueue, currentQIndex, userInput, feedback,
                 sessionStats, pending, timeLeft, reward, apiKey, elapsed, evals>>

NextGen == GenIterate

SpecGen == InitGen /\ [][NextGen]_vars

\* generateQuestionBatch has returned gen.questions
Returned == gen.operation # "none" /\ gen.i = gen.count

\* ------------------------------------------------ a session played out
\* A session started from the menu and played without leaving the play
\* screen, in which every callback scheduled by setTimeout is run by the
\* event loop.
NextPlay ==
  \/ StartGame
  \/ PressDigit
  \/ Tick
  \/ FireDelay

SpecPlay == Init /\ [][NextPlay]_vars /\ WF_vars(FireDelay)

\* ------------------------------------------------------------ properties
Last(seq) == seq[Len(seq)]

\* The arithmetic content of a question
Content(q) == <<q.num1, q.num2, q.operation, q.correctAnswer>>

\* Number of evaluations recorded for the queue, and of those scored wrong
RECURSIVE CountEvals(_, _)
CountEvals(ev, outcomes) ==
  IF ev = <<>> THEN 0
  ELSE Cardinality({j \in 1 .. Len(ev[1]) : ev[1][j] \in outcomes})
       + CountEvals(Tail(ev), outcomes)

Submissions == CountEvals(evals, {"correct", "wrong", "timeout"})
WrongSubmissions == CountEvals(evals, {"wrong", "timeout"})

\* This step is a digit press that completes the buffer of the current question
Submits ==
  /\ lastEvent' = "digit"
  /\ gameState = "PLAYING"
  /\ feedback = "none"
  /\ HasCurrentQ(App)
  /\ Len(userInput) < NumDigits(CurrentQ(App).correctAnswer)
  /\ Len(userInput') = NumDigits(CurrentQ(App).correctAnswer)

\* This step appends exactly one retry clone of the current question
AppendsRetry ==
  /\ Len(questionQueue') = Len(questionQueue) + 1
  /\ \A i \in 1 .. Len(questionQueue) :
       /\ questionQueue'[i].id = questionQueue[i].id
       /\ Content(questionQueue'[i]) = Content(questionQueue[i])
       /\ questionQueue'[i].isRetry = questionQueue[i].isRetry
       /\ questionQueue'[i].id # Last(questionQueue').id
  /\ Content(Last(questionQueue')) = Content(CurrentQ(App))
  /\ Last(questionQueue').isRetry = TRUE
  /\ Last(questionQueue').userAnswer = Undefined

\* C1: a digit press that completes the buffer with a value other than
\* correctAnswer adds 1 to wrongCount, leaves correctCount alone and appends
\* one retry clone (same content, isRetry, no userAnswer, an id no queue entry
\* has) at the end of the queue.
C1_WrongAnswerAppendsRetry ==
  [][(Submits /\ parseInt(userInput') # CurrentQ(App).correctAnswer)
       => /\ sessionStats'.wrongCount = sessionStats.wrongCount + 1
          /\ sessionStats'.correctCount = sessionStats.correctCount
          /\ AppendsRetry]_vars

C1_Witness ==
  /\ lastEvent = "digit"
  /\ feedback = "wrong"
  /\ Len(questionQueue) = sessionStats.totalQuestions + 1
  /\ Last(questionQueue).isRetry
  /\ sessionStats.wrongCount = 1

\* C2: a digit press that completes the buffer with correctAnswer adds 1 to
\* correctCount, leaves wrongCount alone and leaves the queue's length and the
\* content of its entries unchanged.
C2_CorrectAnswerKeepsQueue ==
  [][(Submits /\ parseInt(userInput') = CurrentQ(App).correctAnswer)
       => /\ sessionStats'.correctCount = sessionStats.correctCount + 1
          /\ sessionStats'.wrongCount = sessionStats.wrongCount
          /\ Len(questionQueue') = Len(questionQueue)
          /\ \A i \in 1 .. Len(questionQueue) :
               /\ questionQueue'[i].id = questionQueue[i].id
               /\ Content(questionQueue'[i]) = Content(questionQueue[i])
               /\ questionQueue'[i].isRetry = questionQueue[i].isRetry]_vars

C2_Witness ==
  /\ lastEvent = "digit"
  /\ feedback = "correct"
  /\ sessionStats.correctCount = 1
  /\ Len(questionQueue) = sessionStats.totalQuestions

\* C3: when the countdown of the current question reaches zero, whatever the
\* buffer holds, the question is scored as a timeout: wrongCount grows by 1,
\* correctCount is unchanged and one retry clone is appended at the end.
C3_TimeoutScoredWrong ==
  [][(lastEvent' = "tick" /\ CountDown(timeLeft) = 0)
       => /\ feedback' = "timeout"
          /\ sessionStats'.wrongCount = sessionStats.wrongCount + 1
          /\ sessionStats'.correctCount = sessionStats.correctCount
          /\ userInput' = userInput
          /\ AppendsRetry]_vars

\* a timeout with a proper prefix of the correct answer in the buffer
C3_Witness ==
  /\ lastEvent = "tick"
  /\ feedback = "timeout"
  /\ HasCurrentQ(App)
  /\ userInput = <<1>>
  /\ CurrentQ(App).correctAnswer = 12
  /\ Last(questionQueue).isRetry
  /\ sessionStats.wrongCount = 1

\* C4: the session is completed only when every entry of the queue, the
\* appended retries included, has been evaluated.
C4_CompletionExhaustsQueue ==
  gameState = "RESULTS" => \A i \in 1 .. Len(evals) : evals[i] # <<>>

\* C5: at completion the queue holds the initial batch plus one entry per
\* submission scored wrong.
C5_FinalQueueLength ==
  gameState = "RESULTS" =>
    Len(questionQueue) = sessionStats.totalQuestions + WrongSubmissions

C5_Witness ==
  /\ gameState = "RESULTS"
  /\ WrongSubmissions = 2
  /\ Len(questionQueue) = BatchCount + 2

\* C6: at completion correctCount + wrongCount is the number of submissions
\* and equals the initial batch size plus the wrong submissions.
C6_CountsEqualQueueLength ==
  gameState = "RESULTS" =>
    /\ sessionStats.correctCount + sessionStats.wrongCount = Submissions
    /\ sessionStats.correctCount + sessionStats.wrongCount
         = sessionStats.totalQuestions + WrongSubmissions

\* C7: a feedback-delay callback scheduled before the play state was left or
\* a new session was started is dropped: when it fires, the game state stays
\* what it is (MENU stays MENU) and a session being played keeps its index,
\* buffer and feedback.
C7_StaleCallbackDropped ==
  [][lastEvent' = "staleDelay"
       => /\ gameState' = gameState
          /\ gameState = "PLAYING"
               => UNCHANGED <<currentQIndex, userInput, feedback>>]_vars

\* C8: a question is in timeout feedback only if its own countdown, restarted
\* when it became current, has run for the whole duration.
C8_TimeoutOnlyAfterCountdown ==
  (TimerMounted(App) /\ feedback = "timeout") => elapsed >= Duration

\* C9: while feedback is displayed a digit press and a delete press change
\* nothing.
C9_InputBlockedDuringFeedback ==
  [][(feedback # "none" /\ lastEvent' \in {"digit", "delete"})
       => UNCHANGED <<gameState, questionQueue, currentQIndex, userInput,
                      feedback, sessionStats, pending, timeLeft>>]_vars

C9_Witness ==
  /\ feedback = "wrong"
  /\ lastEvent = "delete"
  /\ userInput # <<>>

\* C10: the buffer never holds more digits than correctAnswer has, and a
\* digit press on a buffer of that length leaves the buffer as it is.
C10_BufferCapped ==
  /\ [](TimerMounted(App) =>
          Len(userInput) <= NumDigits(CurrentQ(App).correctAnswer))
  /\ [][(lastEvent' = "digit" /\ HasCurrentQ(App)
           /\ Len(userInput) >= NumDigits(CurrentQ(App).correctAnswer))
          => userInput' = userInput]_vars

\* the buffer of a two-digit answer is full and a digit was pressed
C10_Witness ==
  /\ TimerMounted(App)
  /\ lastEvent = "digit"
  /\ Len(userInput) = 2
  /\ NumDigits(CurrentQ(App).correctAnswer) = 2

\* Number of typed answers evaluated so far in the session
TypedEvals == CountEvals(evals, {"correct", "wrong"})

\* C11: a digit press on a buffer that stays shorter than correctAnswer
\* evaluates nothing; the digit press that brings the buffer to the length of
\* correctAnswer stores the parsed buffer as the current question's
\* userAnswer and scores it correct exactly if it equals correctAnswer; a
\* typed answer is evaluated by no other step.
C11_AutoSubmitOnFullBuffer ==
  [][/\ (lastEvent' = "digit" /\ ~Submits)
          => UNCHANGED <<evals, sessionStats, feedback, questionQueue, pending>>
     /\ Submits
          => LET q == questionQueue'[currentQIndex + 1]
                 outcome == IF parseInt(userInput') = q.correctAnswer
                            THEN "correct" ELSE "wrong"
             IN /\ q.userAnswer = parseInt(userInput')
                /\ feedback' = outcome
                /\ evals'[currentQIndex + 1] = Append(evals[currentQIndex + 1], outcome)
     /\ (TypedEvals' > TypedEvals) => Submits]_vars

\* the second digit of a two-digit answer was just typed and scored correct
C11_Witness ==
  /\ lastEvent = "digit"
  /\ TimerMounted(App)
  /\ userInput = <<1, 2>>
  /\ CurrentQ(App).userAnswer = 12
  /\ CurrentQ(App).correctAnswer = 12
  /\ feedback = "correct"

\* C12: no queue position has more than one evaluation, correctCount and
\* wrongCount count the evaluations made, and while playing every position
\* before the current one has been evaluated.
C12_EvaluatedExactlyOnce ==
  /\ \A i \in 1 .. Len(evals) : Len(evals[i]) <= 1
  /\ sessionStats.correctCount = CountEvals(evals, {"correct"})
  /\ sessionStats.wrongCount = WrongSubmissions
  /\ gameState = "PLAYING"
       => \A i \in 1 .. Len(evals) : i <= currentQIndex => evals[i] # <<>>

\* Queue position i was scored wrong (typed wrong answer or timeout)
ScoredWrong(i) == \E j \in 1 .. Len(evals[i]) : evals[i][j] \in {"wrong", "timeout"}

\* The logical question an entry belongs to: its id without retry suffixes
Logical(q) == SplitRetry(q.id)

\* C14: on the results screen the review set has an entry for the logical
\* question of every queue entry that was scored wrong, by a typed answer or
\* by a timeout.
C14_ReviewSetCoversWrongQuestions ==
  gameState = "RESULTS"
    => \A i \in 1 .. Len(questionQueue) :
         ScoredWrong(i)
           => \E k \in 1 .. Len(wrongQuestionsMap(questionQueue)) :
                Logical(wrongQuestionsMap(questionQueue)[k]) = Logical(questionQueue[i])

\* C19: starting a session (from the menu or as a review) sets totalQuestions
\* to the length of the queue it starts with, and no other step changes
\* totalQuestions.
C19_TotalQuestionsFixed ==
  [][IF lastEvent' \in {"start", "review"}
     THEN sessionStats'.totalQuestions = Len(questionQueue')
     ELSE sessionStats'.totalQuestions = sessionStats.totalQuestions]_vars

\* a session that appended retries has completed with totalQuestions still
\* the size of its initial batch
C19_Witness ==
  /\ gameState = "RESULTS"
  /\ sessionStats.totalQuestions = BatchCount
  /\ Len(questionQueue) = BatchCount + 2
  /\ sessionStats.wrongCount >= 2

\* C13: on the results screen no two entries of the review set belong to the
\* same logical question, however many attempts at it failed.
C13_ReviewSetDeduplicated ==
  gameState = "RESULTS"
    => \A j, k \in 1 .. Len(wrongQuestionsMap(questionQueue)) :
         j # k => Logical(wrongQuestionsMap(questionQueue)[j])
                    # Logical(wrongQuestionsMap(questionQueue)[k])

\* A completed session of 3 questions in which the first and third question
\* and the retry of the second were answered correctly and the second
\* question was answered with a wrong typed answer
SecondWrongOnce ==
  /\ gameState = "RESULTS"
  /\ sessionStats.totalQuestions = 3
  /\ evals = <<<<"correct">>, <<"wrong">>, <<"correct">>, <<"correct">>>>

\* C15 as stated: that session ends with correctCount = 2 and wrongCount = 1.
C15_TwoCorrectOneWrong ==
  SecondWrongOnce => sessionStats.correctCount = 2 /\ sessionStats.wrongCount = 1

\* C15 amended: that session ends with correctCount = 3 (first question,
\* third question, retry) and wrongCount = 1.
C15_ThreeCorrectOneWrong ==
  SecondWrongOnce => sessionStats.correctCount = 3 /\ sessionStats.wrongCount = 1

C15_Witness ==
  /\ SecondWrongOnce
  /\ sessionStats.correctCount + sessionStats.wrongCount = Len(questionQueue)

\* C16 as stated: the review set of that session is empty.
C16_ReviewSetEmpty ==
  SecondWrongOnce => Len(wrongQuestionsMap(questionQueue)) = 0

\* C16 amended: the review set of that session has exactly one entry, the
\* second question as first asked, holding the wrong answer typed for it.
C16_ReviewSetHoldsSecond ==
  SecondWrongOnce
    => /\ Len(wrongQuestionsMap(questionQueue)) = 1
       /\ wrongQuestionsMap(questionQueue)[1] = questionQueue[2]
       /\ questionQueue[2].isRetry = FALSE
       /\ questionQueue[2].userAnswer # Undefined
       /\ questionQueue[2].userAnswer # questionQueue[2].correctAnswer

C16_Witness ==
  /\ SecondWrongOnce
  /\ questionQueue[4].isRetry
  /\ questionQueue[4].userAnswer = questionQueue[4].correctAnswer

\* C20: while playing, the current index is inside the queue; and when there
\* is no current question a digit press and a timeout change nothing.
C20_IndexInBounds ==
  /\ gameState = "PLAYING"
       => 0 <= currentQIndex /\ currentQIndex < Len(questionQueue)
  /\ ~HasCurrentQ(App)
       => /\ \A num \in Keys : handleInput(App, num, 0) = App
          /\ onTimeUp(App, 0) = App
          /\ processAnswer(App, Undefined, FALSE, 0) = App

\* This step sends a request to the image service
RequestsReward == reward'.requests > reward.requests

\* C17 (cached image): a reward image is held only on the results screen of
\* a session without wrong answers.
C17_RewardOnlyForPerfectResults ==
  reward.image => gameState = "RESULTS" /\ sessionStats.wrongCount = 0

\* C18: a request is sent only by a step that enters RESULTS with
\* wrongCount = 0 in a session without an answer scored wrong; none is sent
\* by a step that ends in MENU or PLAYING.
C18_RequestOnlyOnPerfectCompletion ==
  [][RequestsReward
       => /\ gameState # "RESULTS"
          /\ gameState' = "RESULTS"
          /\ sessionStats'.wrongCount = 0
          /\ CountEvals(evals', {"wrong", "timeout"}) = 0
          /\ reward'.requests = reward.requests + 1]_vars

\* a session was completed without a wrong answer and its request is out
C18_Witness ==
  /\ gameState = "RESULTS"
  /\ sessionStats.wrongCount = 0
  /\ sessionStats.correctCount = BatchCount
  /\ reward.requests = 1
  /\ reward.loading

\* Queue entry q holds a typed answer other than correctAnswer
TypedWrong(q) == q.userAnswer # Undefined /\ q.userAnswer # q.correctAnswer

\* C21: "start review" on a results screen with a non-empty review set starts
\* a session whose queue is the review set, entry by entry with the same
\* content, isRetry false and no userAnswer, at index 0 with an empty buffer,
\* no feedback, both counters 0 and totalQuestions the size of the review
\* set; every entry comes from a queue entry with a wrong typed answer.  With
\* an empty review set startReview changes nothing.
C21_ReviewStartsFromReviewSet ==
  /\ [][lastEvent' = "review"
          => LET w == wrongQuestionsMap(questionQueue)
             IN /\ Len(w) > 0
                /\ gameState' = "PLAYING"
                /\ Len(questionQueue') = Len(w)
                /\ \A j \in 1 .. Len(w) :
                     /\ Content(questionQueue'[j]) = Content(w[j])
                     /\ questionQueue'[j].isRetry = FALSE
                     /\ questionQueue'[j].userAnswer = Undefined
                     /\ \E i \in 1 .. Len(questionQueue) :
                          /\ TypedWrong(questionQueue[i])
                          /\ Content(questionQueue[i]) = Content(questionQueue'[j])
                /\ currentQIndex' = 0
                /\ userInput' = <<>>
                /\ feedback' = "none"
                /\ sessionStats' = [totalQuestions |-> Len(w),
                                    correctCount |-> 0, wrongCount |-> 0]]_vars
  /\ []((gameState = "RESULTS" /\ Len(wrongQuestionsMap(questionQueue)) = 0)
          => startReview(App) = App)

\* a review session has just started from a results screen with errors
C21_Witness ==
  /\ lastEvent = "review"
  /\ gameState = "PLAYING"
  /\ Len(questionQueue) >= 1
  /\ questionQueue[1].id.review = 1
  /\ sessionStats.totalQuestions = Len(questionQueue)

\* The questions generated so far by the call followed in gen
Generated == {gen.questions[k] : k \in 1 .. Len(gen.questions)}

\* C22: every generated division has a non-zero num2, a num1 that is a
\* multiple of num2, and num1 / num2 = correctAnswer.
C22_DivisionExact ==
  \A q \in Generated :
    q.operation = "/"
      => /\ q.num2 # 0
         /\ q.num1 % q.num2 = 0
         /\ q.num1 \div q.num2 = q.correctAnswer

\* a division by the target number 7 was generated
C22_Witness ==
  \E q \in Generated :
    q.operation = "/" /\ gen.targetNumber = 7 /\ q.num2 = 7 /\ q.num1 = 14

\* The operation op applied to the displayed operands (Undefined for a
\* division that is not exact)
Apply(op, n1, n2) ==
  CASE op = "+" -> n1 + n2
    [] op = "-" -> n1 - n2
    [] op = "*" -> n1 * n2
    [] op = "/" -> IF n2 # 0 /\ n1 % n2 = 0 THEN n1 \div n2 ELSE Undefined

\* C23: every generated question has a correctAnswer >= 0 that is its
\* operation applied to num1 and num2 as displayed.
C23_AnswerMatchesOperation ==
  \A q \in Generated :
    /\ q.correctAnswer >= 0
    /\ q.correctAnswer = Apply(q.operation, q.num1, q.num2)

\* a subtraction whose operands were exchanged: the draw was below the
\* target number
C23_Witness ==
  \E q \in Generated :
    /\ q.operation = "-"
    /\ gen.targetNumber = 5
    /\ q.num1 = 5
    /\ q.num2 = 2
    /\ q.correctAnswer = 3

\* C24: the call returns exactly count questions, with pairwise distinct
\* ids, isRetry false and no userAnswer.
C24_BatchOfCount ==
  Returned
    => /\ Len(gen.questions) = gen.count
       /\ \A j, k \in 1 .. Len(gen.questions) :
            j # k => gen.questions[j].id # gen.questions[k].id
       /\ \A q \in Generated : q.isRetry = FALSE /\ q.userAnswer = Undefined

\* a call with count = GenCount has returned
C24_Witness ==
  /\ Returned
  /\ gen.count = GenCount
  /\ Len(gen.questions) = GenCount
  /\ gen.questions[1].id # gen.questions[2].id

\* C25: with a target number every generated question shows it as num1 or
\* num2; a multiplication with target number 7 shows 7 and has
\* correctAnswer = num1 * num2.
C25_TargetIsAnOperand ==
  /\ gen.targetNumber # Undefined
       => \A q \in Generated : q.num1 = gen.targetNumber \/ q.num2 = gen.targetNumber
  /\ (gen.operation = "*" /\ gen.targetNumber = 7)
       => \A q \in Generated :
            /\ q.num1 = 7 \/ q.num2 = 7
            /\ q.correctAnswer = q.num1 * q.num2

\* a multiplication by the target number 7 was generated with 7 shown first
C25_Witness ==
  /\ gen.operation = "*"
  /\ gen.targetNumber = 7
  /\ \E q \in Generated : q.num1 = 7 /\ q.num2 = 3 /\ q.correctAnswer = 21

\* The ids of the queue, in order
Ids(queue) == [k \in 1 .. Len(queue) |-> queue[k].id]

\* C26: the queue is always totalQuestions + wrongCount long; outside the
\* start of a session a step either keeps the entries of the queue in place
\* or appends exactly one entry after them, and it appends exactly when it
\* scores an answer or a timeout wrong.
C26_QueueLengthTracksWrong ==
  /\ [](Len(questionQueue) = sessionStats.totalQuestions + sessionStats.wrongCount)
  /\ [][lastEvent' \notin {"start", "review"}
          => \/ /\ Ids(questionQueue') = Ids(questionQueue)
                /\ sessionStats'.wrongCount = sessionStats.wrongCount
                /\ WrongSubmissions' = WrongSubmissions
             \/ /\ Len(questionQueue') = Len(questionQueue) + 1
                /\ SubSeq(Ids(questionQueue'), 1, Len(questionQueue)) = Ids(questionQueue)
                /\ sessionStats'.wrongCount = sessionStats.wrongCount + 1
                /\ WrongSubmissions' = WrongSubmissions + 1]_vars

\* a timeout has just appended the second retry of a session in play
C26_Witness ==
  /\ gameState = "PLAYING"
  /\ feedback = "timeout"
  /\ sessionStats.wrongCount = 2
  /\ Len(questionQueue) = sessionStats.totalQuestions + 2
  /\ Last(questionQueue).isRetry

\* C27: correctCount never exceeds totalQuestions, no logical question of a
\* generated batch has more than one evaluation scored correct, and the
\* accuracy of the results screen is at most 100.
C27_CorrectAtMostTotal ==
  /\ sessionStats.correctCount <= sessionStats.totalQuestions
  /\ \A i, j \in 1 .. Len(evals) :
       (/\ questionQueue[i].id.review = 0
        /\ Logical(questionQueue[i]) = Logical(questionQueue[j])
        /\ \E m \in 1 .. Len(evals[i]) : evals[i][m] = "correct"
        /\ \E n \in 1 .. Len(evals[j]) : evals[j][n] = "correct")
         => i = j /\ Len(evals[i]) = 1
  /\ (gameState = "RESULTS" /\ sessionStats.totalQuestions > 0)
       => accuracy(sessionStats) <= 100

\* a session with a wrong answer is complete with every question of its
\* batch scored correct once: accuracy 100
C27_Witness ==
  /\ gameState = "RESULTS"
  /\ sessionStats.correctCount = sessionStats.totalQuestions
  /\ sessionStats.wrongCount = 1
  /\ accuracy(sessionStats) = 100

\* A question is presented and waits for its answer
Presented == TimerMounted(App) /\ feedback = "none"

\* C28: in an uninterrupted session whose scheduled callbacks fire, if from
\* some point on no evaluation is scored wrong and every presented question
\* gets its evaluation, the results screen is reached; and a session of a
\* batch of at least 2 in which no evaluation was scored correct is not on
\* the results screen.
C28_CompletesIffAnsweredCorrectly ==
  /\ (/\ <>[](feedback \in {"none", "correct"})
      /\ [](Presented => <>(feedback # "none")))
       => [](gameState = "PLAYING" => <>(gameState = "RESULTS"))
  /\ []((sessionStats.totalQuestions >= 2 /\ CountEvals(evals, {"correct"}) = 0)
          => gameState # "RESULTS")

\* a session of 2 questions is complete after a wrong answer followed by
\* correct answers only
C28_Witness ==
  /\ gameState = "RESULTS"
  /\ sessionStats.totalQuestions = 2
  /\ evals = <<<<"wrong">>, <<"correct">>, <<"correct">>>>

====
